---- MODULE Spec2Model ----
(***************************************************************************)
(* A model of the YOLOv8 object-detection service:                         *)
(*   detector.py  - YoloObjectDetector, the normalization layer            *)
(*   app/main.py  - the FastAPI service (GET /health, POST /predict)       *)
(*   ui/app.py    - the Gradio client (predict_gradio and its helpers)     *)
(*                                                                         *)
(* Numbers.  A Python float is modelled as an exact fixed-point number, an *)
(* integer count of hundredths (10.0 is 1000, 0.25 is 25).  Box corners    *)
(* the model emits are even counts, so (x1 + x2) / 2.0 is exact in the     *)
(* representation.  A Python int (class_id, image_width) is an integer.    *)
(*                                                                         *)
(* Images.  The detection model is a black box that is a function of the   *)
(* pixels.  The pixels of an image are abstracted to `scene`: the ordered  *)
(* candidates the network emits for them before confidence filtering.      *)
(***************************************************************************)
EXTENDS Integers, Sequences, FiniteSets, TLC

VARIABLES
    detector,    \* app/main.py:28  the global YoloObjectDetector instance
    image,       \* detector.py:93  argument of the current predict() call
    ret,         \* detector.py:93  what that call returned (NoRet: not yet)
    modelCalls,  \* number of times self.model(...) has been run (detector.py:41)
    ncalls,      \* number of predict() calls made so far
    reqs,        \* app/main.py     the HTTP requests the service is handling
    backendOk,   \* whether self.model(...) currently works or raises
    ui,          \* ui/app.py:67    the last predict_gradio call and its outputs
    files        \* ui/app.py:13    the files of OUTPUT_DIR: path -> content

vars == <<detector, image, ret, modelCalls, ncalls, reqs, backendOk, ui, files>>

\* ------------------------------------------------------------------ bounds
MaxDet == 2        \* candidates per image
MaxCalls == 2      \* successive predict() calls on the detector
NReq == 2          \* HTTP requests the service handles at a time
NUuid == 2         \* distinct values uuid4() can draw
MaxClicks == 3     \* successive predict_gradio calls

\* ------------------------------------------------------------- basic values
None == [kind |-> "None"]
NoRet == [kind |-> "pending"]

Min(a, b) == IF a <= b THEN a ELSE b

\* float(n) of a Python int
float_of_int(n) == 100 * n

\* int(x) of a float: truncation toward zero
int_of_float(x) == IF x >= 0 THEN x \div 100 ELSE -((-x) \div 100)

\* str(n) of an int
str(n) == ToString(n)

\* ----------------------------------------------------------- model outputs
\* xyxy rows: the box of the spec's example, a box that leaves a 640x480
\* image on every side, and a box with x2 < x1, y2 < y1 and a half pixel.
BoxSet ==
    { <<1000, 2000, 11000, 22000>>,
      <<-500, -200, 65000, 50100>>,
      <<11000, 22000, 1000, 2050>> }

\* class ids as the float32 values of boxes.cls: 0.0 and 7.0
ClsSet == {float_of_int(0), float_of_int(7)}

\* confidences: 0.10 (below the 0.25 threshold), 0.50 and 0.90
ConfSet == {10, 50, 90}

Candidates == [box : BoxSet, cls : ClsSet, conf : ConfSet]

Scenes == UNION {[1..n -> Candidates] : n \in 0..MaxDet}

Sizes == {<<640, 480>>, <<100, 50>>}

Images == [kind : {"image"}, mode : {"RGB"}, size : Sizes, scene : Scenes]

\* A few fixed pictures, used where every image of Images would be too many.
PersonAt == [box |-> <<1000, 2000, 11000, 22000>>, cls |-> float_of_int(0), conf |-> 90]
TruckOut == [box |-> <<-500, -200, 65000, 50100>>, cls |-> float_of_int(7), conf |-> 50]
FaintPerson == [box |-> <<11000, 22000, 1000, 2050>>, cls |-> float_of_int(0), conf |-> 10]

Gallery ==
    { [kind |-> "image", mode |-> "RGB", size |-> <<640, 480>>, scene |-> <<PersonAt, TruckOut>>],
      [kind |-> "image", mode |-> "RGBA", size |-> <<100, 50>>, scene |-> <<FaintPerson, TruckOut>>],
      [kind |-> "image", mode |-> "L", size |-> <<640, 480>>, scene |-> << >>] }

\* The id -> label mapping of the loaded weights (result.names).  It is
\* partial: class 7 has no entry.
ModelNames == (0 :> "person") @@ (1 :> "bicycle")

\* --------------------------------------------------------------- detector.py
\* YoloObjectDetector._load_model: YOLO(model_path).to(device)
_load_model(model_path, device) ==
    [weights |-> model_path, device |-> device, names |-> ModelNames]

\* YoloObjectDetector.__init__
YoloObjectDetector(model_path, device, conf_threshold) ==
    [model_path |-> model_path,
     device |-> device,
     conf_threshold |-> conf_threshold,
     model |-> _load_model(model_path, device)]

\* image.convert("RGB"): a new image of the same size and content
convert_RGB(img) == [img EXCEPT !.mode = "RGB"]

\* YoloObjectDetector._run_inference: self.model(img_np, conf=..., verbose=False)[0].
\* The model keeps, in its emission order, the candidates whose confidence
\* reaches conf.
_run_inference(self, img) ==
    LET kept == SelectSeq(img.scene, LAMBDA c : c.conf >= self.conf_threshold)
    IN [xyxy |-> [i \in 1..Len(kept) |-> kept[i].box],
        cls |-> [i \in 1..Len(kept) |-> kept[i].cls],
        conf |-> [i \in 1..Len(kept) |-> kept[i].conf],
        names |-> self.model.names]

\* Variant of label: a fixed placeholder for an id without an entry.
label_unknown(names, class_id) ==
    IF class_id \in DOMAIN names THEN names[class_id] ELSE "unknown"

\* names.get(class_id, str(class_id))
label(names, class_id) ==
    IF class_id \in DOMAIN names THEN names[class_id] ELSE str(class_id)

\* Variant of bbox_dict: the far corner clamped to the image.
bbox_clamped(x1, y1, x2, y2, image_width, image_height) ==
    LET cx2 == Min(x2, float_of_int(image_width))
        cy2 == Min(y2, float_of_int(image_height))
    IN [x1 |-> x1, y1 |-> y1, x2 |-> cx2, y2 |-> cy2,
        width |-> cx2 - x1,
        height |-> cy2 - y1,
        x_center |-> (x1 + cx2) \div 2,
        y_center |-> (y1 + cy2) \div 2,
        image_width |-> image_width,
        image_height |-> image_height]

\* the "bbox" dict of one detection
bbox_dict(x1, y1, x2, y2, image_width, image_height) ==
    [x1 |-> x1, y1 |-> y1, x2 |-> x2, y2 |-> y2,
     width |-> x2 - x1,
     height |-> y2 - y1,
     x_center |-> (x1 + x2) \div 2,
     y_center |-> (y1 + y2) \div 2,
     image_width |-> image_width,
     image_height |-> image_height]

\* the body of the loop of _build_detections_dict: one detection
detection_dict(box, cls_id, score, names, image_width, image_height) ==
    LET class_id == int_of_float(cls_id)
    IN [class_id |-> class_id,
        class_name |-> label(names, class_id),
        confidence |-> score,
        bbox |-> bbox_dict(box[1], box[2], box[3], box[4], image_width, image_height)]

\* zip(boxes, cls_ids, scores) stops at the shortest of the three
zip_len(boxes, cls_ids, scores) == Min(Len(boxes), Min(Len(cls_ids), Len(scores)))

\* Variant of num_detections_of: the number of distinct classes detected.
count_classes(detections) ==
    Cardinality({detections[i].class_id : i \in 1..Len(detections)})

\* "num_detections": len(detections)
num_detections_of(detections) == Len(detections)

\* Variant of _build_detections_dict: each detection is put at the front
\* of the list (detections.insert(0, ...)) instead of appended.
build_detections_prepend(boxes, cls_ids, scores, names, image_width, image_height) ==
    LET n == zip_len(boxes, cls_ids, scores)
        detections == [i \in 1..n |->
            detection_dict(boxes[n + 1 - i], cls_ids[n + 1 - i], scores[n + 1 - i],
                           names, image_width, image_height)]
    IN [image_width |-> image_width,
        image_height |-> image_height,
        num_detections |-> num_detections_of(detections),
        detections |-> detections]

\* YoloObjectDetector._build_detections_dict
_build_detections_dict(boxes, cls_ids, scores, names, image_width, image_height) ==
    LET n == zip_len(boxes, cls_ids, scores)
        detections == [i \in 1..n |->
            detection_dict(boxes[i], cls_ids[i], scores[i],
                           names, image_width, image_height)]
    IN [image_width |-> image_width,
        image_height |-> image_height,
        num_detections |-> num_detections_of(detections),
        detections |-> detections]

\* the dict predict returns for image is None
EmptyResult ==
    [image_width |-> 0, image_height |-> 0, num_detections |-> 0, detections |-> << >>]

\* YoloObjectDetector.predict.  A method may assign to self, so the operator
\* gives the detector after the call with the returned value: `self` is the
\* detector afterwards, `invoked` the number of runs of self.model, `exc` the
\* exception that left the method ("" when it returned), `value` the dict.
\* `ok` is whether the model call works; it raises when it does not.
\*
\* Variant of predict: a null image reaches the model and yields a dict
\* without the image size.
predict_no_guard(self, img, ok) ==
    IF img = None
    THEN [self |-> self, invoked |-> 1, exc |-> "",
          value |-> [num_detections |-> 0, detections |-> << >>]]
    ELSE IF ~ok
    THEN [self |-> self, invoked |-> 1, exc |-> "RuntimeError", value |-> NoRet]
    ELSE LET rgb == convert_RGB(img)
             result == _run_inference(self, rgb)
         IN [self |-> self, invoked |-> 1, exc |-> "",
             value |-> _build_detections_dict(result.xyxy, result.cls, result.conf,
                           result.names, rgb.size[1], rgb.size[2])]

\* Variant of predict: the call raises the detector's threshold after a
\* crowded image.
predict_adaptive(self, img, ok) ==
    IF img = None
    THEN [self |-> self, invoked |-> 0, exc |-> "", value |-> EmptyResult]
    ELSE IF ~ok
    THEN [self |-> self, invoked |-> 1, exc |-> "RuntimeError", value |-> NoRet]
    ELSE LET rgb == convert_RGB(img)
             result == _run_inference(self, rgb)
         IN [self |-> [self EXCEPT !.conf_threshold =
                          IF Len(result.xyxy) > 1 THEN 60 ELSE @],
             invoked |-> 1, exc |-> "",
             value |-> _build_detections_dict(result.xyxy, result.cls, result.conf,
                           result.names, rgb.size[1], rgb.size[2])]

\* YoloObjectDetector.predict
predict(self, img, ok) ==
    IF img = None
    THEN [self |-> self, invoked |-> 0, exc |-> "", value |-> EmptyResult]
    ELSE IF ~ok
    THEN [self |-> self, invoked |-> 1, exc |-> "RuntimeError", value |-> NoRet]
    ELSE LET rgb == convert_RGB(img)
             result == _run_inference(self, rgb)
         IN [self |-> self, invoked |-> 1, exc |-> "",
             value |-> _build_detections_dict(result.xyxy, result.cls, result.conf,
                           result.names, rgb.size[1], rgb.size[2])]

\* app/main.py:28-32  detector = YoloObjectDetector(...)
InitDetector == YoloObjectDetector("yolov8n.pt", "cpu", 25)

\* ----------------------------------------------------------------- JSON text
\* A JSON document is the sequence of the lines json.dump(..., indent=2)
\* writes: one line per scalar member and per bracket.  A line has its
\* nesting depth, its key ("" inside a list), the lexical kind of its value
\* and the value: n for a number (an int prints without a fraction, a float
\* with one), s for a string.
JLine(depth, key, kind, n, s) ==
    [depth |-> depth, key |-> key, kind |-> kind, n |-> n, s |-> s]

JSONDecodeError == [kind |-> "JSONDecodeError"]

\* the lines of one detection dict at nesting depth d
json_detection(det, d) ==
    << JLine(d, "", "{", 0, ""),
       JLine(d + 1, "class_id", "int", det.class_id, ""),
       JLine(d + 1, "class_name", "str", 0, det.class_name),
       JLine(d + 1, "confidence", "float", det.confidence, ""),
       JLine(d + 1, "bbox", "{", 0, ""),
       JLine(d + 2, "x1", "float", det.bbox.x1, ""),
       JLine(d + 2, "y1", "float", det.bbox.y1, ""),
       JLine(d + 2, "x2", "float", det.bbox.x2, ""),
       JLine(d + 2, "y2", "float", det.bbox.y2, ""),
       JLine(d + 2, "width", "float", det.bbox.width, ""),
       JLine(d + 2, "height", "float", det.bbox.height, ""),
       JLine(d + 2, "x_center", "float", det.bbox.x_center, ""),
       JLine(d + 2, "y_center", "float", det.bbox.y_center, ""),
       JLine(d + 2, "image_width", "int", det.bbox.image_width, ""),
       JLine(d + 2, "image_height", "int", det.bbox.image_height, ""),
       JLine(d + 1, "", "}", 0, ""),
       JLine(d, "", "}", 0, "") >>

RECURSIVE json_list(_, _)
json_list(dets, d) ==
    IF dets = << >> THEN << >>
    ELSE json_detection(Head(dets), d) \o json_list(Tail(dets), d)

\* json.dumps of the dicts this program serializes: a detections dict,
\* {"status": ...} and {"detail": ...}
json_dumps(obj) ==
    IF "detections" \in DOMAIN obj
    THEN << JLine(0, "", "{", 0, ""),
            JLine(1, "image_width", "int", obj.image_width, ""),
            JLine(1, "image_height", "int", obj.image_height, ""),
            JLine(1, "num_detections", "int", obj.num_detections, ""),
            JLine(1, "detections", "[", 0, "") >>
         \o json_list(obj.detections, 2)
         \o << JLine(1, "", "]", 0, ""), JLine(0, "", "}", 0, "") >>
    ELSE IF "status" \in DOMAIN obj
    THEN << JLine(0, "", "{", 0, ""),
            JLine(1, "status", "str", 0, obj.status),
            JLine(0, "", "}", 0, "") >>
    ELSE << JLine(0, "", "{", 0, ""),
            JLine(1, "detail", "str", 0, obj.detail),
            JLine(0, "", "}", 0, "") >>

\* the (depth, key, kind) of every line of a document
json_shape(lines) ==
    [i \in 1..Len(lines) |-> <<lines[i].depth, lines[i].key, lines[i].kind>>]

\* json.loads of one detection: the 17 lines of json_detection
json_load_detection(b) ==
    [class_id |-> b[2].n,
     class_name |-> b[3].s,
     confidence |-> b[4].n,
     bbox |-> [x1 |-> b[6].n, y1 |-> b[7].n, x2 |-> b[8].n, y2 |-> b[9].n,
               width |-> b[10].n, height |-> b[11].n,
               x_center |-> b[12].n, y_center |-> b[13].n,
               image_width |-> b[14].n, image_height |-> b[15].n]]

\* json.loads: the value a document denotes, or JSONDecodeError
json_loads(lines) ==
    LET n == Len(lines)
        k == (n - 7) \div 17
        blank == [class_id |-> 0, class_name |-> "", confidence |-> 0,
                  bbox |-> [x1 |-> 0, y1 |-> 0, x2 |-> 0, y2 |-> 0,
                            width |-> 0, height |-> 0, x_center |-> 0, y_center |-> 0,
                            image_width |-> 0, image_height |-> 0]]
        shape == [image_width |-> 0, image_height |-> 0, num_detections |-> 0,
                  detections |-> [j \in 1..k |-> blank]]
    IN IF n >= 7 /\ (n - 7) % 17 = 0 /\ json_shape(lines) = json_shape(json_dumps(shape))
       THEN [image_width |-> lines[2].n,
             image_height |-> lines[3].n,
             num_detections |-> lines[4].n,
             detections |-> [j \in 1..k |->
                 json_load_detection(SubSeq(lines, 17 * (j - 1) + 6, 17 * j + 5))]]
       ELSE IF json_shape(lines) = json_shape(json_dumps([status |-> ""]))
       THEN [status |-> lines[2].s]
       ELSE IF json_shape(lines) = json_shape(json_dumps([detail |-> ""]))
       THEN [detail |-> lines[2].s]
       ELSE JSONDecodeError

\* --------------------------------------------------------------- app/main.py
\* What an upload's bytes can be: no file part at all, bytes that are no
\* image, a PNG cut short, a complete PNG.
NoFile == [kind |-> "missing"]
Garbage == [kind |-> "garbage"]

\* image.save(buf, format="PNG")
png_bytes(img) ==
    [kind |-> "png", mode |-> img.mode, size |-> img.size, scene |-> img.scene]

truncated(bytes) == [bytes EXCEPT !.kind = "truncated"]

Uploads ==
    {Garbage} \cup {png_bytes(g) : g \in Gallery}
        \cup {truncated(png_bytes(g)) : g \in {h \in Gallery : h.mode = "RGB"}}

\* Image.open(io.BytesIO(image_bytes)).convert("RGB"): open identifies the
\* format from the header, convert decodes the pixels.
open_RGB(image_bytes) ==
    IF image_bytes.kind = "png"
    THEN [exc |-> "",
          img |-> convert_RGB([kind |-> "image", mode |-> image_bytes.mode,
                               size |-> image_bytes.size, scene |-> image_bytes.scene])]
    ELSE IF image_bytes.kind = "truncated"
    THEN [exc |-> "OSError", img |-> None]
    ELSE [exc |-> "UnidentifiedImageError", img |-> None]

\* Variant of health_check: the answer reports the state of the backend.
health_check_probe == [status |-> IF backendOk THEN "ok" ELSE "unavailable"]

\* health_check()
health_check == [status |-> "ok"]

\* predict(file) after `await file.read()`: lines 46-49.  `called` counts
\* the calls of detector.predict, `content` is what JSONResponse is given.
predict_route(det, image_bytes, ok) ==
    LET opened == open_RGB(image_bytes)
    IN IF opened.exc # ""
       THEN [self |-> det, called |-> 0, exc |-> opened.exc, content |-> NoRet]
       ELSE LET r == predict(det, opened.img, ok)
            IN [self |-> r.self, called |-> 1, exc |-> r.exc, content |-> r.value]

NoResp == [status |-> 0, body |-> << >>]

\* The response the framework sends: JSONResponse(content) is a 200 with the
\* JSON text; an exception that leaves the handler is a 500.
respond(outcome) ==
    IF outcome.exc # ""
    THEN [status |-> 500, body |-> << JLine(0, "", "text", 0, "Internal Server Error") >>]
    ELSE [status |-> 200, body |-> json_dumps(outcome.content)]

\* file: UploadFile = File(...): a request without the file part is answered
\* 422 before the handler runs.
validation_error == [status |-> 422, body |-> json_dumps([detail |-> "Field required"])]

\* POST /predict from request to response
serve_predict(det, file, ok) ==
    IF file = NoFile THEN validation_error
    ELSE respond(predict_route(det, file, ok))

Idle ==
    [route |-> "", file |-> NoFile, stage |-> "idle", image_bytes |-> NoFile,
     called |-> 0, resp |-> NoResp]

Slots == 1..NReq

\* a request reaches the service
Arrive(r) ==
    /\ reqs[r].stage = "idle"
    /\ \E route \in {"health", "predict"} :
         \E file \in (IF route = "predict" THEN Uploads \cup {NoFile} ELSE {NoFile}) :
            reqs' = [reqs EXCEPT ![r] =
                        [Idle EXCEPT !.route = route, !.file = file, !.stage = "received"]]
    /\ UNCHANGED <<detector, image, ret, modelCalls, ncalls, backendOk, ui, files>>

\* GET /health
HealthCheck(r) ==
    /\ reqs[r].stage = "received"
    /\ reqs[r].route = "health"
    /\ reqs' = [reqs EXCEPT ![r].stage = "done",
                            ![r].resp = [status |-> 200, body |-> json_dumps(health_check)]]
    /\ UNCHANGED <<detector, image, ret, modelCalls, ncalls, backendOk, ui, files>>

\* POST /predict up to `await file.read()`, where the handler yields
PredictRead(r) ==
    /\ reqs[r].stage = "received"
    /\ reqs[r].route = "predict"
    /\ IF reqs[r].file = NoFile
       THEN reqs' = [reqs EXCEPT ![r].stage = "done", ![r].resp = validation_error]
       ELSE reqs' = [reqs EXCEPT ![r].stage = "read", ![r].image_bytes = reqs[r].file]
    /\ UNCHANGED <<detector, image, ret, modelCalls, ncalls, backendOk, ui, files>>

\* POST /predict from the read to the response: no await, so it runs whole
PredictRun(r) ==
    /\ reqs[r].stage = "read"
    /\ LET o == predict_route(detector, reqs[r].image_bytes, backendOk)
       IN /\ detector' = o.self
          /\ reqs' = [reqs EXCEPT ![r].stage = "done",
                                  ![r].called = o.called,
                                  ![r].resp = respond(o)]
    /\ UNCHANGED <<image, ret, modelCalls, ncalls, backendOk, ui, files>>

\* the caller has its response; the slot is free for the next request
Collect(r) ==
    /\ reqs[r].stage = "done"
    /\ reqs' = [reqs EXCEPT ![r] = Idle]
    /\ UNCHANGED <<detector, image, ret, modelCalls, ncalls, backendOk, ui, files>>

\* the inference backend starts or stops raising
BackendFlip ==
    /\ backendOk' = ~backendOk
    /\ UNCHANGED <<detector, image, ret, modelCalls, ncalls, reqs, ui, files>>

\* ----------------------------------------------------------------- ui/app.py
\* the images a user can hand to the UI
UiImages == Gallery

\* uuid.uuid4().hex: the values a draw can give
Uuids == 1..NUuid

\* OUTPUT_DIR / f"detections_{file_id}.json"
json_path_of(file_id) == "ui_outputs/detections_" \o ToString(file_id) \o ".json"

\* requests.post(API_URL, files=files): the service's answer, or an
\* exception when no connection is made
requests_post(file, net, ok) ==
    IF ~net
    THEN [exc |-> "ConnectionError", status |-> 0, body |-> << >>]
    ELSE LET resp == serve_predict(detector, file, ok)
         IN [exc |-> "", status |-> resp.status, body |-> resp.body]

\* resp.raise_for_status(): TRUE when it raises HTTPError
raise_for_status(resp) == 400 <= resp.status /\ resp.status < 600

\* draw_boxes: a copy of the image with, per detection, the rectangle and
\* the label text "<class_name> <confidence to two decimals>"
draw_boxes(img, detections) ==
    LET dets == IF "detections" \in DOMAIN detections
                THEN detections.detections ELSE << >>
    IN [kind |-> "annotated",
        base |-> img,
        overlay |-> [i \in 1..Len(dets) |->
            [rect |-> <<dets[i].bbox.x1, dets[i].bbox.y1, dets[i].bbox.x2, dets[i].bbox.y2>>,
             label |-> dets[i].class_name,
             conf |-> dets[i].confidence]]]

\* Variant of save_detections_json: only the list of detections is written.
save_list_only(detections, file_id, fs) ==
    LET json_path == json_path_of(file_id)
    IN [json_path |-> json_path,
        files |-> (json_path :> ( << JLine(0, "", "[", 0, "") >>
                                  \o json_list(detections.detections, 1)
                                  \o << JLine(0, "", "]", 0, "") >> )) @@ fs]

\* save_detections_json: open(json_path, "w") replaces a file of that name
save_detections_json(detections, file_id, fs) ==
    LET json_path == json_path_of(file_id)
    IN [json_path |-> json_path,
        files |-> (json_path :> json_dumps(detections)) @@ fs]

\* what a call that raises leaves behind: no outputs, the files as they were
Raised(exc, status, fs) ==
    [exc |-> exc, status |-> status, detections |-> None, drew |-> FALSE,
     annotated |-> None, json_path |-> "", files |-> fs]

\* predict_gradio(image).  env is what the call meets: net (a connection is
\* made), ok (the backend works), file_id (the uuid4 draw).  fs is the
\* output directory before the call.
\*
\* Variant of predict_gradio: an error status is not raised but treated as
\* an empty result.
predict_gradio_fallback(img, env, fs) ==
    IF img = None
    THEN [exc |-> "", status |-> 0, detections |-> None, drew |-> FALSE,
          annotated |-> None, json_path |-> "", files |-> fs]
    ELSE LET resp == requests_post(png_bytes(img), env.net, env.ok)
         IN IF resp.exc # "" THEN Raised(resp.exc, 0, fs)
            ELSE LET detections == IF raise_for_status(resp)
                                   THEN EmptyResult ELSE json_loads(resp.body)
                     saved == save_detections_json(detections, env.file_id, fs)
                 IN [exc |-> "", status |-> resp.status, detections |-> detections,
                     drew |-> TRUE,
                     annotated |-> draw_boxes(img, detections),
                     json_path |-> saved.json_path, files |-> saved.files]

\* predict_gradio(image)
predict_gradio(img, env, fs) ==
    IF img = None
    THEN [exc |-> "", status |-> 0, detections |-> None, drew |-> FALSE,
          annotated |-> None, json_path |-> "", files |-> fs]
    ELSE LET resp == requests_post(png_bytes(img), env.net, env.ok)
         IN IF resp.exc # "" THEN Raised(resp.exc, 0, fs)
            ELSE IF raise_for_status(resp) THEN Raised("HTTPError", resp.status, fs)
            ELSE LET detections == json_loads(resp.body)
                 IN IF detections = JSONDecodeError
                    THEN Raised("JSONDecodeError", resp.status, fs)
                    ELSE LET saved == save_detections_json(detections, env.file_id, fs)
                         IN [exc |-> "", status |-> resp.status,
                             detections |-> detections,
                             drew |-> TRUE,
                             annotated |-> draw_boxes(img, detections),
                             json_path |-> saved.json_path, files |-> saved.files]

NoClick ==
    [n |-> 0, image |-> None, exc |-> "", status |-> 0, detections |-> None,
     drew |-> FALSE, annotated |-> None, json_path |-> ""]

\* btn.click: one run of predict_gradio
GradioCall ==
    /\ ui.n < MaxClicks
    /\ \E img \in UiImages \cup {None} :
         \E env \in [net : BOOLEAN, ok : BOOLEAN, file_id : Uuids] :
            LET r == predict_gradio(img, env, files)
            IN /\ ui' = [n |-> ui.n + 1, image |-> img, exc |-> r.exc,
                         status |-> r.status, detections |-> r.detections,
                         drew |-> r.drew, annotated |-> r.annotated,
                         json_path |-> r.json_path]
               /\ files' = r.files
    /\ UNCHANGED <<detector, image, ret, modelCalls, ncalls, reqs, backendOk>>

\* ------------------------------------------------- calls of detector.predict
\* one call of detector.predict(image) on a working backend
DetectorPredict ==
    /\ ret = NoRet
    /\ LET r == predict(detector, image, TRUE)
       IN /\ detector' = r.self
          /\ ret' = r.value
          /\ modelCalls' = modelCalls + r.invoked
    /\ ncalls' = ncalls + 1
    /\ UNCHANGED <<image, reqs, backendOk, ui, files>>

\* the caller has the result and calls again, with another argument
DetectorNextCall ==
    /\ ret # NoRet
    /\ ncalls < MaxCalls
    /\ image' \in Gallery \cup {None}
    /\ ret' = NoRet
    /\ UNCHANGED <<detector, modelCalls, ncalls, reqs, backendOk, ui, files>>

\* ------------------------------------------------------------ specifications
InitRest ==
    /\ detector = InitDetector
    /\ ret = NoRet
    /\ modelCalls = 0
    /\ ncalls = 0
    /\ reqs = [r \in Slots |-> Idle]
    /\ backendOk = TRUE
    /\ ui = NoClick
    /\ files = << >>

\* the detector alone: predict on every image of Images, then on more
InitDetectorCalls == image \in Images \cup {None} /\ InitRest

NextDetector == DetectorPredict \/ DetectorNextCall

SpecDetector == InitDetectorCalls /\ [][NextDetector]_vars

\* the service under concurrent requests
InitService == image = None /\ InitRest

NextService ==
    \/ \E r \in Slots : Arrive(r)
    \/ \E r \in Slots : HealthCheck(r)
    \/ \E r \in Slots : PredictRead(r)
    \/ \E r \in Slots : PredictRun(r)
    \/ \E r \in Slots : Collect(r)
    \/ BackendFlip

SpecService == InitService /\ [][NextService]_vars

\* the UI process
InitClient == image = None /\ InitRest

NextClient == GradioCall

SpecClient == InitClient /\ [][NextClient]_vars

\* -------------------------------------------------------------------- claims
\* what the model emitted for the current argument of predict
RawOfCall == _run_inference(detector, convert_RGB(image))

Returned == ret # NoRet

\* request r of the service is a finished POST /predict
DonePredict(r) == reqs[r].stage = "done" /\ reqs[r].route = "predict"

\* this step is one run of predict_gradio
Clicked == ui'.n = ui.n + 1

\* C1: uploading bytes that cannot be decoded as an image to POST /predict
\* yields a 4xx response (never a 5xx, never a 200 with empty detections),
\* and detector.predict is not called for that request.
C1_UndecodableIsClientError ==
    \A r \in Slots :
        (DonePredict(r) /\ reqs[r].file.kind \in {"garbage", "truncated"})
            => /\ reqs[r].resp.status \in 400..499
               /\ reqs[r].called = 0

\* C2: every dict predict returns, on the normal path and on the null-image
\* path, after any sequence of calls, has num_detections = len(detections).
C2_NumDetectionsIsLength ==
    Returned => ret.num_detections = Len(ret.detections)

C2_Witness ==
    /\ Returned
    /\ ncalls >= 2
    /\ Len(ret.detections) = 2
    /\ modelCalls = 1

\* C6: for model output of N parallel rows the result has exactly N
\* detections in emission order: detections[i] is built from boxes[i],
\* cls[i] and conf[i].
C6_EmissionOrder ==
    (Returned /\ image # None) =>
        /\ Len(ret.detections) = Len(RawOfCall.xyxy)
        /\ \A i \in 1..Len(ret.detections) :
              /\ <<ret.detections[i].bbox.x1, ret.detections[i].bbox.y1,
                   ret.detections[i].bbox.x2, ret.detections[i].bbox.y2>>
                    = RawOfCall.xyxy[i]
              /\ ret.detections[i].class_id = int_of_float(RawOfCall.cls[i])
              /\ ret.detections[i].confidence = RawOfCall.conf[i]

C6_Witness ==
    /\ Returned
    /\ image # None
    /\ Len(ret.detections) = 2
    /\ ret.detections[1].confidence < ret.detections[2].confidence
    /\ ret.detections[1].bbox.x1 > ret.detections[2].bbox.x1
    /\ ret.detections[1].class_id # ret.detections[2].class_id

\* C7: predict(None) returns exactly the zero dict, as a normal result, and
\* does not run the model.
C7_NullImage ==
    [][(ret = NoRet /\ ret' # NoRet /\ image = None)
          => (ret' = EmptyResult /\ modelCalls' = modelCalls /\ detector' = detector)]_vars

C7_Witness ==
    /\ image = None
    /\ ret = EmptyResult
    /\ ncalls >= 1
    /\ modelCalls < ncalls

\* C8: the geometry of every detection is computed from the corners as the
\* model gave them, unclamped and unrounded: width = x2 - x1,
\* height = y2 - y1, x_center = (x1 + x2)/2, y_center = (y1 + y2)/2; the box
\* [10, 20, 110, 220] gives width 100, height 200 and center (60, 120).
C8_Geometry ==
    (Returned /\ image # None) =>
        \A i \in 1..Len(ret.detections) :
            LET b == ret.detections[i].bbox
            IN /\ i <= Len(RawOfCall.xyxy)
               /\ <<b.x1, b.y1, b.x2, b.y2>> = RawOfCall.xyxy[i]
               /\ b.width = b.x2 - b.x1
               /\ b.height = b.y2 - b.y1
               /\ 2 * b.x_center = b.x1 + b.x2
               /\ 2 * b.y_center = b.y1 + b.y2
               /\ (<<b.x1, b.y1, b.x2, b.y2>> = <<1000, 2000, 11000, 22000>>
                     => <<b.width, b.height, b.x_center, b.y_center>>
                           = <<10000, 20000, 6000, 12000>>)

C8_Witness ==
    /\ Returned
    /\ image # None
    /\ Len(ret.detections) = 2
    /\ ret.detections[1].bbox.x2 > float_of_int(ret.detections[1].bbox.image_width)
    /\ ret.detections[1].bbox.x1 < 0
    /\ ret.detections[2].bbox.width < 0
    /\ ret.detections[2].bbox.y_center = 12025

\* C9: class_name is the mapping's label for class_id when the mapping has
\* an entry and the stringified class_id when it has none; a missing entry
\* neither raises nor drops the detection.
C9_ClassName ==
    (Returned /\ image # None) =>
        /\ Len(ret.detections) = Len(RawOfCall.cls)
        /\ \A i \in 1..Len(ret.detections) :
              LET d == ret.detections[i]
              IN /\ (d.class_id \in DOMAIN RawOfCall.names
                        => d.class_name = RawOfCall.names[d.class_id])
                 /\ (d.class_id \notin DOMAIN RawOfCall.names
                        => d.class_name = str(d.class_id))

C9_Witness ==
    /\ Returned
    /\ image # None
    /\ Len(ret.detections) = 2
    /\ ret.detections[1].class_name = "7"
    /\ ret.detections[2].class_name = "person"

\* C5: GET /health answers 200 {"status": "ok"} whenever the service has the
\* request, whatever the state of the model, runs no inference and changes
\* nothing but its own request.
C5_HealthAlwaysOk ==
    [][\A r \in Slots :
          (reqs[r].stage = "received" /\ reqs[r].route = "health")
             => /\ ENABLED HealthCheck(r)
                /\ (reqs'[r].stage = "done"
                      => /\ reqs'[r].resp.status = 200
                         /\ json_loads(reqs'[r].resp.body) = [status |-> "ok"]
                         /\ reqs'[r].called = 0
                         /\ detector' = detector
                         /\ backendOk' = backendOk
                         /\ \A q \in Slots \ {r} : reqs'[q] = reqs[q])]_vars

C5_Witness ==
    /\ ~backendOk
    /\ \E r, q \in Slots :
          /\ reqs[r].stage = "done" /\ reqs[r].route = "health"
          /\ reqs[r].resp.status = 200
          /\ DonePredict(q)
          /\ reqs[q].called = 1
          /\ reqs[q].resp.status = 500

\* C10: the one detector made at service start is never modified by request
\* handling, and under any interleaving of /predict requests a response is
\* determined by the request's own upload alone.
C10_DetectorReadOnly ==
    /\ detector = InitDetector
    /\ \A r \in Slots :
          (DonePredict(r) /\ reqs[r].resp.status = 200)
             => json_loads(reqs[r].resp.body)
                   = predict(InitDetector, open_RGB(reqs[r].file).img, TRUE).value
    /\ \A r, q \in Slots :
          (DonePredict(r) /\ DonePredict(q)
              /\ reqs[r].resp.status = 200 /\ reqs[q].resp.status = 200
              /\ reqs[r].file = reqs[q].file)
             => reqs[r].resp = reqs[q].resp

C10_Witness ==
    \E r, q \in Slots :
        /\ DonePredict(r)
        /\ reqs[r].resp.status = 200
        /\ Len(json_loads(reqs[r].resp.body).detections) = 2
        /\ reqs[q].stage = "read"
        /\ reqs[q].image_bytes # reqs[r].file
        /\ reqs[q].image_bytes.kind = "png"

\* C3 as stated: every run of predict_gradio writes exactly one new file,
\* leaves every earlier file as it was, and the file's content deserializes
\* to the detections received.
C3_EveryCallWritesOneNewFile ==
    [][Clicked =>
          \E p \in (DOMAIN files') \ (DOMAIN files) :
              /\ DOMAIN files' = (DOMAIN files) \cup {p}
              /\ \A q \in DOMAIN files : files'[q] = files[q]
              /\ json_loads(files'[p]) = ui'.detections]_vars

\* C3 amended: a run of predict_gradio that is given an image and gets a
\* success response writes exactly one file, detections_<uuid4 hex>.json,
\* whose content deserializes to the detections received, and touches no
\* file of another name; so when the identifier drawn is not the name of an
\* earlier file the file is new and no earlier file is overwritten.  A run
\* given no image, or one that raises, writes nothing.
C3_SuccessfulCallWritesItsFile ==
    [][Clicked =>
          IF ui'.image # None /\ ui'.exc = ""
          THEN LET p == ui'.json_path
               IN /\ p \in {json_path_of(u) : u \in Uuids}
                  /\ DOMAIN files' = (DOMAIN files) \cup {p}
                  /\ json_loads(files'[p]) = ui'.detections
                  /\ ui'.detections # JSONDecodeError
                  /\ \A q \in (DOMAIN files) \ {p} : files'[q] = files[q]
          ELSE files' = files /\ ui'.json_path = ""]_vars

C3_Witness ==
    /\ ui.image # None
    /\ ui.exc = ""
    /\ Cardinality(DOMAIN files) >= 2
    /\ ui.json_path \in DOMAIN files
    /\ json_loads(files[ui.json_path]) = ui.detections
    /\ ui.detections.num_detections = 2

\* C4: when the endpoint answers the POST with a non-success status,
\* predict_gradio raises: no annotated image, draw_boxes not run, no JSON
\* file written, the output directory unchanged.
C4_UpstreamFailureAborts ==
    [][(Clicked /\ ui'.status # 0 /\ ui'.status \notin 200..299)
          => /\ ui'.exc = "HTTPError"
             /\ ~ui'.drew
             /\ ui'.annotated = None
             /\ ui'.json_path = ""
             /\ files' = files]_vars

C4_Witness ==
    /\ ui.status = 500
    /\ ui.exc = "HTTPError"
    /\ ~ui.drew
    /\ ui.image # None
    /\ Cardinality(DOMAIN files) >= 1

====
